---- MODULE Spec2Model ----
(***************************************************************************)
(* Model of package worker (src/worker/worker.go): the SQS poller.         *)
(*   Start          the infinite poll loop                                 *)
(*   run            fan-out of one batch, one goroutine per message, join  *)
(*   handleMessage  per-message pipeline: handler, classify, delete        *)
(* The queue service, the Handler and the Logger are the environment: the  *)
(* outcome of every call to them is a nondeterministic choice.             *)
(***************************************************************************)
EXTENDS Integers, Sequences, FiniteSets, TLC

VARIABLES
    callerConfig,  \* the *Config the caller of Start holds: "nil" or "caller"
    config,        \* Start's own parameter variable: "nil", "caller", "default"
    entry,         \* which function the modelled goroutine was entered at
    pc,            \* position of the goroutine running Start / run
    params,        \* the ReceiveMessageInput of the receive call of this iteration
    messages,      \* resp.Messages of this iteration (the batch handed to run)
    next,          \* number of goroutines run has launched so far
    wg,            \* counter of the sync.WaitGroup of run
    units,         \* the per-message goroutines of the batch
    plog,          \* log entries emitted by Start and run in this iteration
    consecFails,   \* consecutive failed receives so far (saturating)
    handler,       \* the Handler's fixed answer for the redelivered message
    hist           \* how each delivery of the redelivered message was classified

vars == <<callerConfig, config, entry, pc, params, messages, next, wg, units,
          plog, consecFails, handler, hist>>

\* the variables of the Handler's side, which no step of the worker writes
hvars == <<handler, hist>>

\* ---------------------------------------------------------------- bounds
MaxBatch == 3      \* largest batch the queue returns in the model
MaxFails == 3      \* the consecutive-failure counter saturates here
MaxDeliveries == 2 \* deliveries of the redelivered message that are recorded

\* ----------------------------------------------------------- configuration
QueueA == "https://sqs/queueA"

DefaultConfigForQueueURL(url) ==
    [QueueURL |-> url, MaxNumberOfMessage |-> 10, WaitTimeSecond |-> 20,
     Log |-> "logger"]

DefaultConfig ==
    [QueueURL |-> "", MaxNumberOfMessage |-> 10, WaitTimeSecond |-> 20,
     Log |-> "logger"]

\* the Config a non-nil *Config points to
Deref(p) == IF p = "default" THEN DefaultConfig
            ELSE DefaultConfigForQueueURL(QueueA)

\* ------------------------------------------------------------------ errors
NilErr  == [type |-> "nil", event |-> "", msg |-> ""]
Pending == [type |-> "pending", event |-> "", msg |-> ""]

NewInvalidEventError(event, msg) ==
    [type |-> "InvalidEventError", event |-> event, msg |-> msg]

\* err.Error(): InvalidEventError formats "[Invalid Event: %s] %s"
Error(e) ==
    IF e.type \in {"InvalidEventError", "*InvalidEventError"}
    THEN <<"[Invalid Event: ", e.event, "] ", e.msg>>
    ELSE <<e.msg>>

\* what a Handler may return
HandlerErrors ==
    { NilErr,
      NewInvalidEventError("evt", "bad"),
      [type |-> "*InvalidEventError", event |-> "evt", msg |-> "bad"],
      [type |-> "errorString", event |-> "", msg |-> "handler failed"] }

\* what svc.DeleteMessage may return
DeleteErrors ==
    { NilErr, [type |-> "awserr", event |-> "", msg |-> "delete failed"] }

\* what svc.ReceiveMessage may return as err
ReceiveErr == [type |-> "awserr", event |-> "", msg |-> "receive failed"]

\* a Handler whose answers are not fixed in advance
AnyHandler == [type |-> "any", event |-> "", msg |-> ""]

\* the receipt handle of the message whose redelivery is followed
Redelivered == "1"

\* the Handler may answer e for message m: a deterministic Handler answers
\* the redelivered message the same way every time
HandlerMayReturn(m, e) ==
    \/ handler = AnyHandler
    \/ m.ReceiptHandle # Redelivered
    \/ e = handler

\* what handleMessage decided for a message: the Handler's error, the number
\* of delete calls it went on to issue, and what it returned without a delete
Classification(u) ==
    [herr |-> u.herr, deletes |-> Len(u.del),
     ret |-> IF u.pc = "done" THEN u.ret ELSE Pending]

\* the classifications recorded so far, with that of unit record u added
\* when u handles the redelivered message under a deterministic Handler
Record(u) ==
    IF /\ handler # AnyHandler
       /\ u.m.ReceiptHandle = Redelivered
       /\ Len(hist) < MaxDeliveries
    THEN Append(hist, Classification(u))
    ELSE hist

\* variants of the type assertion: one that never matches, one that takes
\* every error except the pointer type for an invalid event
IsInvalidEventNever(e) == FALSE
IsInvalidEventAnyError(e) == e.type \in {"InvalidEventError", "errorString"}

\* the type assertion err.(InvalidEventError)
IsInvalidEvent(e) == e.type = "InvalidEventError"

\* ---------------------------------------------------------------- messages
Min(a, b) == IF a < b THEN a ELSE b

\* the batches the queue may answer a request for at most max messages with:
\* n messages with distinct receipt handles, in either order
Batches(max) ==
    { [i \in 1..n |-> [ReceiptHandle |-> ToString(IF r THEN n + 1 - i ELSE i)]]
        : n \in 0..Min(max, MaxBatch), r \in BOOLEAN }

\* aws.StringValue
StringValue(p) == IF p = "nilptr" THEN "" ELSE p

\* ------------------------------------------------------------- log entries
\* by: the function that emits the entry; logger: "config" for config.Log,
\* "std" for the standard library logger
Entry(by, logger, sev, text) ==
    [by |-> by, logger |-> logger, sev |-> sev, text |-> text]

\* a goroutine of run that has not been launched yet
NoUnit == [pc |-> "idle", m |-> [ReceiptHandle |-> ""], hcalls |-> <<>>,
           herr |-> Pending, derr |-> Pending, ret |-> Pending, del |-> <<>>,
           log |-> <<>>]

\* -------------------------------------------------------------------- Init
Init ==
    /\ callerConfig \in {"nil", "caller"}
    /\ config = callerConfig
    /\ entry = "Start"
    /\ pc = "loop"
    /\ params = [QueueUrl |-> "", MaxNumberOfMessages |-> 0,
                 MessageAttributeNames |-> <<>>, WaitTimeSeconds |-> 0]
    /\ messages = <<>>
    /\ next = 0
    /\ wg = 0
    /\ units = <<>>
    /\ plog = <<>>
    /\ consecFails = 0
    /\ handler = AnyHandler
    /\ hist = <<>>

\* ------------------------------------------------------------------- Start
\* variant: no fallback, a nil config stays nil
StartPollNoFallback ==
    /\ entry = "Start"
    /\ pc = "loop"
    /\ config' = config
    /\ plog' = << Entry("Start", "config", "Debug", <<"worker: Start Polling">>) >>
    /\ params' = [QueueUrl |-> Deref(config').QueueURL,
                  MaxNumberOfMessages |-> Deref(config').MaxNumberOfMessage,
                  MessageAttributeNames |-> <<"All">>,
                  WaitTimeSeconds |-> Deref(config').WaitTimeSecond]
    /\ messages' = <<>>
    /\ units' = <<>>
    /\ next' = 0
    /\ wg' = 0
    /\ pc' = "receive"
    /\ UNCHANGED <<callerConfig, entry, consecFails>>
    /\ UNCHANGED hvars

\* variant: the fallback is a fresh default value built for this call, not the
\* address of the process-wide DefaultConfig
StartPollFreshDefault ==
    /\ entry = "Start"
    /\ pc = "loop"
    /\ config' = IF config = "nil" THEN "fresh" ELSE config
    /\ plog' = << Entry("Start", "config", "Debug", <<"worker: Start Polling">>) >>
    /\ params' = [QueueUrl |-> Deref(config').QueueURL,
                  MaxNumberOfMessages |-> Deref(config').MaxNumberOfMessage,
                  MessageAttributeNames |-> <<"All">>,
                  WaitTimeSeconds |-> Deref(config').WaitTimeSecond]
    /\ messages' = <<>>
    /\ units' = <<>>
    /\ next' = 0
    /\ wg' = 0
    /\ pc' = "receive"
    /\ UNCHANGED <<callerConfig, entry, consecFails>>
    /\ UNCHANGED hvars

\* top of the for loop up to the call of svc.ReceiveMessage
StartPoll ==
    /\ entry = "Start"
    /\ pc = "loop"
    /\ config' = IF config = "nil" THEN "default" ELSE config
    /\ plog' = << Entry("Start", "config", "Debug", <<"worker: Start Polling">>) >>
    /\ params' = [QueueUrl |-> Deref(config').QueueURL,
                  MaxNumberOfMessages |-> Deref(config').MaxNumberOfMessage,
                  MessageAttributeNames |-> <<"All">>,
                  WaitTimeSeconds |-> Deref(config').WaitTimeSecond]
    /\ messages' = <<>>
    /\ units' = <<>>
    /\ next' = 0
    /\ wg' = 0
    /\ pc' = "receive"
    /\ UNCHANGED <<callerConfig, entry, consecFails>>
    /\ UNCHANGED hvars

\* variant: return from Start on a failed receive instead of continue
StartReceiveErrorReturns ==
    /\ pc = "receive"
    /\ plog' = Append(plog, Entry("Start", "std", "Println", Error(ReceiveErr)))
    /\ consecFails' = Min(consecFails + 1, MaxFails)
    /\ pc' = "returned"
    /\ UNCHANGED <<callerConfig, config, entry, params, messages, next, wg, units>>
    /\ UNCHANGED hvars

\* variant: give up after two consecutive failed receives
StartReceiveErrorRetryLimit ==
    /\ pc = "receive"
    /\ plog' = Append(plog, Entry("Start", "std", "Println", Error(ReceiveErr)))
    /\ consecFails' = Min(consecFails + 1, MaxFails)
    /\ pc' = IF consecFails + 1 >= 2 THEN "returned" ELSE "loop"
    /\ UNCHANGED <<callerConfig, config, entry, params, messages, next, wg, units>>
    /\ UNCHANGED hvars

\* svc.ReceiveMessage returns an error: log.Println(err); continue
StartReceiveError ==
    /\ pc = "receive"
    /\ plog' = Append(plog, Entry("Start", "std", "Println", Error(ReceiveErr)))
    /\ consecFails' = Min(consecFails + 1, MaxFails)
    /\ pc' = "loop"
    /\ UNCHANGED <<callerConfig, config, entry, params, messages, next, wg, units>>
    /\ UNCHANGED hvars

\* variant: Start returns when the response has no messages
StartReceiveOkReturnsOnEmpty ==
    /\ pc = "receive"
    /\ \E b \in Batches(params.MaxNumberOfMessages) :
          /\ messages' = b
          /\ pc' = IF Len(b) > 0 THEN "run" ELSE "returned"
    /\ consecFails' = 0
    /\ UNCHANGED <<callerConfig, config, entry, params, next, wg, units, plog>>
    /\ UNCHANGED hvars

\* variant: run is called for every response, without the length check
StartReceiveOkAlwaysRuns ==
    /\ pc = "receive"
    /\ \E b \in Batches(params.MaxNumberOfMessages) :
          /\ messages' = b
          /\ pc' = "run"
    /\ consecFails' = 0
    /\ UNCHANGED <<callerConfig, config, entry, params, next, wg, units, plog>>
    /\ UNCHANGED hvars

\* svc.ReceiveMessage returns a response: run is called when it has messages
StartReceiveOk ==
    /\ pc = "receive"
    /\ \E b \in Batches(params.MaxNumberOfMessages) :
          /\ messages' = b
          /\ pc' = IF Len(b) > 0 THEN "run" ELSE "loop"
    /\ consecFails' = 0
    /\ UNCHANGED <<callerConfig, config, entry, params, next, wg, units, plog>>
    /\ UNCHANGED hvars

\* --------------------------------------------------------------------- run
\* variant: wg.Add(numMessages - 1)
runEnterAddOneLess ==
    /\ pc = "run"
    /\ plog' = Append(plog, Entry("run", "config", "Info",
                 <<"worker: Received ", ToString(Len(messages)), " messages">>))
    /\ wg' = Len(messages) - 1
    /\ units' = [i \in 1..Len(messages) |-> NoUnit]
    /\ next' = 0
    /\ pc' = IF Len(messages) = 0 THEN "wait" ELSE "spawn"
    /\ UNCHANGED <<callerConfig, config, entry, params, messages, consecFails>>
    /\ UNCHANGED hvars

\* entry of run: the info entry, the WaitGroup and wg.Add(numMessages)
runEnter ==
    /\ pc = "run"
    /\ plog' = Append(plog, Entry("run", "config", "Info",
                 <<"worker: Received ", ToString(Len(messages)), " messages">>))
    /\ wg' = Len(messages)
    /\ units' = [i \in 1..Len(messages) |-> NoUnit]
    /\ next' = 0
    /\ pc' = IF Len(messages) = 0 THEN "wait" ELSE "spawn"
    /\ UNCHANGED <<callerConfig, config, entry, params, messages, consecFails>>
    /\ UNCHANGED hvars

\* variant: the goroutine reads the message through a variable shared by all
\* iterations instead of its own argument, and sees the last message
runSpawnSharedVar ==
    /\ pc = "spawn"
    /\ next' = next + 1
    /\ units' = [units EXCEPT ![next + 1] =
                    [@ EXCEPT !.pc = "launched", !.m = messages[Len(messages)]]]
    /\ pc' = IF next + 1 = Len(messages) THEN "wait" ELSE "spawn"
    /\ UNCHANGED <<callerConfig, config, entry, params, messages, wg, plog,
                   consecFails>>
    /\ UNCHANGED hvars

\* one iteration of the range loop: go func(m){...}(messages[i])
runSpawn ==
    /\ pc = "spawn"
    /\ next' = next + 1
    /\ units' = [units EXCEPT ![next + 1] =
                    [@ EXCEPT !.pc = "launched", !.m = messages[next + 1]]]
    /\ pc' = IF next + 1 = Len(messages) THEN "wait" ELSE "spawn"
    /\ UNCHANGED <<callerConfig, config, entry, params, messages, wg, plog,
                   consecFails>>
    /\ UNCHANGED hvars

\* variant: the join gives up as soon as one unit has returned an error
runWaitShortCircuit ==
    /\ pc = "wait"
    /\ \/ wg = 0
       \/ \E i \in DOMAIN units : units[i].ret.type \notin {"pending", "nil"}
    /\ pc' = IF entry = "Start" THEN "loop" ELSE "returned"
    /\ UNCHANGED <<callerConfig, config, entry, params, messages, next, wg,
                   units, plog, consecFails>>
    /\ UNCHANGED hvars

\* variant: run returns without wg.Wait()
runWaitNoJoin ==
    /\ pc = "wait"
    /\ pc' = IF entry = "Start" THEN "loop" ELSE "returned"
    /\ UNCHANGED <<callerConfig, config, entry, params, messages, next, wg,
                   units, plog, consecFails>>
    /\ UNCHANGED hvars

\* wg.Wait() returns when the counter is zero, and run returns to its caller
runWait ==
    /\ pc = "wait"
    /\ wg = 0
    /\ pc' = IF entry = "Start" THEN "loop" ELSE "returned"
    /\ UNCHANGED <<callerConfig, config, entry, params, messages, next, wg,
                   units, plog, consecFails>>
    /\ UNCHANGED hvars

\* ----------------------------------------------- goroutine / handleMessage
\* variant: the goroutine logs the result without the nil check
unitReturnLogsAlways(u, err) ==
    [u EXCEPT !.ret = err,
              !.log = Append(@, Entry("run", "config", "Error", Error(err))),
              !.pc = "done"]

\* variant: the goroutine drops the error without logging it
unitReturnNeverLogs(u, err) ==
    [u EXCEPT !.ret = err, !.pc = "done"]

\* the rest of the goroutine once handleMessage has returned err:
\* config.Log.Error(err.Error()) when err is not nil, then the deferred wg.Done()
unitReturn(u, err) ==
    [u EXCEPT !.ret = err,
              !.log = IF err # NilErr
                      THEN Append(@, Entry("run", "config", "Error", Error(err)))
                      ELSE @,
              !.pc = "done"]

\* variant: the queue of the process-wide default instead of the configured one
DeleteParamsDefaultQueue(cfg, m) ==
    [QueueUrl |-> DefaultConfig.QueueURL, ReceiptHandle |-> m.ReceiptHandle]

\* variant: a fixed queue instead of the one of the configuration
DeleteParamsFixedQueue(cfg, m) ==
    [QueueUrl |-> QueueA, ReceiptHandle |-> m.ReceiptHandle]

\* the DeleteMessageInput handleMessage builds for message m
DeleteParams(cfg, m) ==
    [QueueUrl |-> cfg.QueueURL, ReceiptHandle |-> m.ReceiptHandle]

\* the goroutine starts and handleMessage calls h.HandleMessage(m)
unitCallHandler(i) ==
    /\ units[i].pc = "launched"
    /\ units' = [units EXCEPT ![i] =
                    [@ EXCEPT !.pc = "handling", !.hcalls = Append(@, units[i].m)]]
    /\ UNCHANGED <<callerConfig, config, entry, pc, params, messages, next, wg,
                   plog, consecFails>>
    /\ UNCHANGED hvars

\* variant: handleMessage remembers the messages it has seen and answers nil
\* for a message it has classified before, without classifying it again
handlerReturnSkipsSeen(i, e) ==
    /\ units[i].pc = "handling"
    /\ HandlerMayReturn(units[i].m, e)
    /\ LET u == [units[i] EXCEPT !.herr = e] IN
       IF units[i].m.ReceiptHandle = Redelivered /\ hist # <<>>
       THEN /\ units' = [units EXCEPT ![i] = unitReturn(u, NilErr)]
            /\ wg' = wg - 1
       ELSE IF IsInvalidEvent(e) \/ e = NilErr
       THEN /\ units' = [units EXCEPT ![i] =
                 [u EXCEPT !.log = IF IsInvalidEvent(e)
                                   THEN Append(@, Entry("handleMessage", "config",
                                                        "Error", Error(e)))
                                   ELSE @,
                           !.del = Append(@, DeleteParams(Deref(config), u.m)),
                           !.pc = "deleting"]]
            /\ wg' = wg
       ELSE /\ units' = [units EXCEPT ![i] = unitReturn(u, e)]
            /\ wg' = wg - 1
    /\ hist' = Record(units'[i])
    /\ UNCHANGED <<callerConfig, config, entry, pc, params, messages, next, plog,
                   consecFails, handler>>

\* h.HandleMessage returns e: classify, then return e or call svc.DeleteMessage
handlerReturn(i, e) ==
    /\ units[i].pc = "handling"
    /\ HandlerMayReturn(units[i].m, e)
    /\ LET u == [units[i] EXCEPT !.herr = e] IN
       IF IsInvalidEvent(e) \/ e = NilErr
       THEN /\ units' = [units EXCEPT ![i] =
                 [u EXCEPT !.log = IF IsInvalidEvent(e)
                                   THEN Append(@, Entry("handleMessage", "config",
                                                        "Error", Error(e)))
                                   ELSE @,
                           !.del = Append(@, DeleteParams(Deref(config), u.m)),
                           !.pc = "deleting"]]
            /\ wg' = wg
       ELSE /\ units' = [units EXCEPT ![i] = unitReturn(u, e)]
            /\ wg' = wg - 1
    /\ hist' = Record(units'[i])
    /\ UNCHANGED <<callerConfig, config, entry, pc, params, messages, next, plog,
                   consecFails, handler>>

\* variant: wg.Done() not deferred, skipped by the early return of a failed delete
deleteReturnNoDone(i, e) ==
    /\ units[i].pc = "deleting"
    /\ LET u == IF e # NilErr THEN [units[i] EXCEPT !.derr = e]
                ELSE [units[i] EXCEPT !.derr = e, !.log = Append(@,
                        Entry("handleMessage", "config", "Debug",
                              <<"worker: deleted message from queue: ",
                                StringValue(units[i].m.ReceiptHandle)>>))]
       IN units' = [units EXCEPT ![i] = unitReturn(u, e)]
    /\ wg' = IF e # NilErr THEN wg ELSE wg - 1
    /\ UNCHANGED <<callerConfig, config, entry, pc, params, messages, next, plog,
                   consecFails>>
    /\ UNCHANGED hvars

\* variant: the debug entry is logged before the error check of the delete
deleteReturnLogFirst(i, e) ==
    /\ units[i].pc = "deleting"
    /\ LET u == [units[i] EXCEPT !.derr = e, !.log = Append(@,
                        Entry("handleMessage", "config", "Debug",
                              <<"worker: deleted message from queue: ",
                                StringValue(units[i].m.ReceiptHandle)>>))]
       IN units' = [units EXCEPT ![i] = unitReturn(u, e)]
    /\ wg' = wg - 1
    /\ UNCHANGED <<callerConfig, config, entry, pc, params, messages, next, plog,
                   consecFails>>
    /\ UNCHANGED hvars

\* svc.DeleteMessage returns e: return it, or log the debug entry and return nil
deleteReturn(i, e) ==
    /\ units[i].pc = "deleting"
    /\ LET u == IF e # NilErr THEN [units[i] EXCEPT !.derr = e]
                ELSE [units[i] EXCEPT !.derr = e, !.log = Append(@,
                        Entry("handleMessage", "config", "Debug",
                              <<"worker: deleted message from queue: ",
                                StringValue(units[i].m.ReceiptHandle)>>))]
       IN units' = [units EXCEPT ![i] = unitReturn(u, e)]
    /\ wg' = wg - 1
    /\ UNCHANGED <<callerConfig, config, entry, pc, params, messages, next, plog,
                   consecFails>>
    /\ UNCHANGED hvars

\* ------------------------------------------------------------------- specs
Next ==
    \/ StartPoll
    \/ StartReceiveError
    \/ StartReceiveOk
    \/ runEnter
    \/ runSpawn
    \/ runWait
    \/ \E i \in DOMAIN units : unitCallHandler(i)
    \/ \E i \in DOMAIN units : \E e \in HandlerErrors : handlerReturn(i, e)
    \/ \E i \in DOMAIN units : \E e \in DeleteErrors : deleteReturn(i, e)

Spec == Init /\ [][Next]_vars

\* run called on its own with any batch, the empty one included
InitRun ==
    /\ callerConfig \in {"nil", "caller"}
    /\ config = IF callerConfig = "nil" THEN "default" ELSE "caller"
    /\ entry = "run"
    /\ pc = "run"
    /\ params = [QueueUrl |-> "", MaxNumberOfMessages |-> 0,
                 MessageAttributeNames |-> <<>>, WaitTimeSeconds |-> 0]
    /\ messages \in Batches(Deref(config).MaxNumberOfMessage)
    /\ next = 0
    /\ wg = 0
    /\ units = <<>>
    /\ plog = <<>>
    /\ consecFails = 0
    /\ handler = AnyHandler
    /\ hist = <<>>

NextRun ==
    \/ runEnter
    \/ runSpawn
    \/ runWait
    \/ \E i \in DOMAIN units : unitCallHandler(i)
    \/ \E i \in DOMAIN units : \E e \in HandlerErrors : handlerReturn(i, e)
    \/ \E i \in DOMAIN units : \E e \in DeleteErrors : deleteReturn(i, e)

RunSpec == InitRun /\ [][NextRun]_vars

\* every call to the queue service and to the Handler returns, and every
\* goroutine that can take a step is scheduled
Fairness ==
    /\ WF_vars(StartPoll)
    /\ WF_vars(StartReceiveError \/ StartReceiveOk)
    /\ WF_vars(runEnter)
    /\ WF_vars(runSpawn)
    /\ WF_vars(runWait)
    /\ WF_vars(\E i \in DOMAIN units : unitCallHandler(i))
    /\ WF_vars(\E i \in DOMAIN units : \E e \in HandlerErrors : handlerReturn(i, e))
    /\ WF_vars(\E i \in DOMAIN units : \E e \in DeleteErrors : deleteReturn(i, e))

LiveSpec == Init /\ [][Next]_vars /\ Fairness

\* Start with a deterministic Handler for the redelivered message
InitRedelivery ==
    /\ callerConfig \in {"nil", "caller"}
    /\ config = callerConfig
    /\ entry = "Start"
    /\ pc = "loop"
    /\ params = [QueueUrl |-> "", MaxNumberOfMessages |-> 0,
                 MessageAttributeNames |-> <<>>, WaitTimeSeconds |-> 0]
    /\ messages = <<>>
    /\ next = 0
    /\ wg = 0
    /\ units = <<>>
    /\ plog = <<>>
    /\ consecFails = 0
    /\ handler \in HandlerErrors
    /\ hist = <<>>

RedeliverySpec == InitRedelivery /\ [][Next]_vars

\* ---------------------------------------------------------------- helpers
Done(i)     == units[i].pc = "done"
AllDone     == Len(units) = Len(messages) /\ \A i \in DOMAIN units : Done(i)
NumDone     == Cardinality({i \in DOMAIN units : Done(i)})
ErrorEntries(l) == {k \in DOMAIN l : l[k].sev = "Error"}
DebugEntries(l) == {k \in DOMAIN l : l[k].sev = "Debug"}
\* the queue identity the caller configured ("" when it passed no config)
ConfiguredQueue == IF callerConfig = "nil" THEN "" ELSE QueueA
DeleteFailed(i) == units[i].derr.type = "awserr"

\* C1: a receive request is issued (Start moves to the receive call) only from
\* a state in which every message of the previous batch has a unit and every
\* unit has finished; so while a Handler call has not returned, no step issues
\* a receive request.
C1_Backpressure ==
    [][ (pc # "receive" /\ pc' = "receive") => AllDone ]_vars

\* a batch with one unit finished and one Handler call still running, the
\* Poller blocked in the join
C1_Witness ==
    /\ entry = "Start"
    /\ pc = "wait"
    /\ \E i, j \in DOMAIN units : Done(i) /\ units[j].pc = "handling"
    /\ ~ ENABLED StartPoll

\* C2: run has returned only if every launched unit has returned and the
\* number joined equals the number launched; while a unit is unfinished the
\* join cannot return; once all are finished the join can return.
C2_JoinIffAllReturned ==
    /\ pc = "returned" =>
          /\ AllDone
          /\ NumDone = Len(messages)
          /\ next = Len(messages)
          /\ wg = 0
    /\ pc = "wait" => (ENABLED runWait <=> AllDone)
    /\ pc \in {"run", "spawn"} => ~ ENABLED runWait

\* run has returned from a full batch whose units ended in different ways
C2_Witness ==
    /\ entry = "run"
    /\ pc = "returned"
    /\ Len(messages) = MaxBatch
    /\ \E i, j \in DOMAIN units : DeleteFailed(i) /\ units[j].ret = NilErr

\* C3: a message whose Handler returned nil has exactly one delete call, and
\* that call carries the receipt handle of that message and the configured
\* queue identity.
C3_NilHandlerOneDelete ==
    \A i \in DOMAIN units :
        units[i].herr = NilErr =>
            /\ Len(units[i].del) = 1
            /\ units[i].del[1].ReceiptHandle = messages[i].ReceiptHandle
            /\ units[i].del[1].QueueUrl = ConfiguredQueue

\* two messages of a batch on a configured queue, both handled with nil and
\* finished, with different receipt handles
C3_Witness ==
    /\ callerConfig = "caller"
    /\ \E i, j \in DOMAIN units :
          /\ i # j
          /\ Done(i) /\ Done(j)
          /\ units[i].herr = NilErr /\ units[j].herr = NilErr
          /\ units[i].del[1].ReceiptHandle # units[j].del[1].ReceiptHandle

\* C4: a message whose Handler returned an invalid-event error has exactly
\* one delete call and exactly one error entry for the invalid event logged
\* by the Message Processor; the Message Processor returns nil when the
\* delete succeeded and the delete error otherwise, never the invalid event.
C4_InvalidEventAbsorbed ==
    \A i \in DOMAIN units :
        units[i].herr.type = "InvalidEventError" =>
            /\ Len(units[i].del) = 1
            /\ Cardinality({k \in DOMAIN units[i].log :
                    units[i].log[k] = [by |-> "handleMessage", logger |-> "config",
                        sev |-> "Error",
                        text |-> <<"[Invalid Event: ", units[i].herr.event, "] ",
                                   units[i].herr.msg>>]}) = 1
            /\ units[i].ret # units[i].herr
            /\ Done(i) => /\ units[i].ret = units[i].derr
                          /\ units[i].ret.type \in {"nil", "awserr"}

\* both endings of an invalid event: delete succeeded, delete failed
C4_Witness ==
    \E i, j \in DOMAIN units :
        /\ units[i].herr.type = "InvalidEventError"
        /\ units[j].herr.type = "InvalidEventError"
        /\ Done(i) /\ Done(j)
        /\ units[i].ret = NilErr
        /\ DeleteFailed(j)

\* C5: a message whose Handler returned a non-nil error that is not an
\* invalid-event error has no delete call, and the Message Processor has
\* returned exactly that error.
C5_OtherErrorReturned ==
    \A i \in DOMAIN units :
        units[i].herr.type \notin {"pending", "nil", "InvalidEventError"} =>
            /\ units[i].del = <<>>
            /\ units[i].ret = units[i].herr
            /\ Done(i)

\* a plain error returned by the Handler of one message of a batch
C5_Witness ==
    \E i \in DOMAIN units :
        /\ units[i].herr.type = "errorString"
        /\ Done(i)
        /\ Len(units) > 1

\* C6: when the delete call failed the Message Processor returns the delete
\* error, no 'deleted message' debug entry exists and there is still one
\* delete call; the debug entry with the receipt handle exists exactly when
\* the delete call succeeded.
C6_DeleteFailure ==
    \A i \in DOMAIN units :
        LET deleted == {k \in DOMAIN units[i].log :
                          /\ units[i].log[k].sev = "Debug"
                          /\ units[i].log[k].text =
                               <<"worker: deleted message from queue: ",
                                 messages[i].ReceiptHandle>>}
        IN /\ DeleteFailed(i) =>
                /\ units[i].ret = units[i].derr
                /\ DebugEntries(units[i].log) = {}
                /\ Len(units[i].del) = 1
                /\ Done(i)
           /\ Cardinality(deleted) = IF units[i].derr = NilErr THEN 1 ELSE 0
           /\ DebugEntries(units[i].log) = deleted

\* a failed delete and a successful one in the same batch
C6_Witness ==
    \E i, j \in DOMAIN units :
        /\ DeleteFailed(i) /\ Done(i)
        /\ units[j].derr = NilErr /\ Done(j)

\* the last receive of this iteration failed, or failed and was retried
AfterReceiveError == consecFails > 0

\* C7 as stated: after a failed receive no unit exists, the iteration has
\* emitted one log entry and the next receive can be issued.
C7_Original ==
    (AfterReceiveError /\ pc = "loop") =>
        /\ units = <<>>
        /\ Len(plog) = 1
        /\ ENABLED StartPoll

\* C7 amended: after a failed receive Start is at the top of the loop or in
\* the next receive call, never in run and never returned; no unit exists
\* (no Handler call, no delete call); the iteration has emitted the debug
\* 'Start Polling' entry through the configured logger and then exactly one
\* entry for the error through the standard logger; the next receive can be
\* issued.
C7_ReceiveErrorRetried ==
    AfterReceiveError =>
        /\ pc \in {"loop", "receive"}
        /\ units = <<>>
        /\ messages = <<>>
        /\ pc = "loop" =>
              /\ Len(plog) = 2
              /\ plog[1] = [by |-> "Start", logger |-> "config", sev |-> "Debug",
                            text |-> <<"worker: Start Polling">>]
              /\ plog[2] = [by |-> "Start", logger |-> "std", sev |-> "Println",
                            text |-> <<"receive failed">>]
              /\ ENABLED StartPoll

\* a receive failed right after an earlier failure was retried
C7_Witness ==
    /\ pc = "loop"
    /\ consecFails = 2
    /\ Len(plog) = 2

\* C8: whatever the other units of the batch returned, every unit can take
\* its next step (be launched, call the Handler, get the Handler's result,
\* get the delete's result); when the Poller is back at the top of the loop
\* after a batch, every message had its Handler called once with that
\* message and its delete issued exactly when the Handler returned nil or an
\* invalid event; an error returned by the Message Processor is logged once
\* by the Dispatcher, the Poller's own log has no error entry, and the
\* Poller can issue the next receive.
C8_FailureIsolation ==
    /\ \A i \in DOMAIN units :
          /\ units[i].pc = "idle" => ENABLED runSpawn
          /\ units[i].pc = "launched" => ENABLED unitCallHandler(i)
          /\ units[i].pc = "handling" =>
                \A e \in HandlerErrors : ENABLED handlerReturn(i, e)
          /\ units[i].pc = "deleting" =>
                \A e \in DeleteErrors : ENABLED deleteReturn(i, e)
          /\ Done(i) =>
                Cardinality({k \in DOMAIN units[i].log :
                                units[i].log[k].by = "run"})
                    = IF units[i].ret = NilErr THEN 0 ELSE 1
    /\ ErrorEntries(plog) = {}
    /\ (pc = "wait" /\ AllDone) => ENABLED runWait
    /\ (entry = "Start" /\ pc = "loop") =>
          /\ ENABLED StartPoll
          /\ Len(units) = Len(messages)
          /\ \A i \in DOMAIN messages :
                /\ units[i].hcalls = <<messages[i]>>
                /\ Len(units[i].del) =
                      IF units[i].herr.type \in {"nil", "InvalidEventError"}
                      THEN 1 ELSE 0

\* the Poller is past a batch in which one Handler failed, one delete failed
\* and one message was fully handled
C8_Witness ==
    /\ entry = "Start"
    /\ pc = "loop"
    /\ \E i, j, k \in DOMAIN units :
          /\ units[i].herr.type = "errorString"
          /\ DeleteFailed(j)
          /\ units[k].ret = NilErr

\* C9: Start never returns to its caller.
C9_StartNeverReturns == ~ (entry = "Start" /\ pc = "returned")

\* Start is back at the top of the loop after a batch in which every message
\* failed
C9_Witness ==
    /\ entry = "Start"
    /\ pc = "loop"
    /\ Len(messages) > 1
    /\ AllDone
    /\ \A i \in DOMAIN units : units[i].ret # NilErr

\* C10: when every call returns and every goroutine is scheduled, receive
\* requests are issued infinitely often; in particular a receive is issued
\* again after the largest counted run of consecutive failures and after a
\* batch in which every message failed.
C10_PollsForever ==
    /\ []<><<StartPoll>>_vars
    /\ (consecFails = MaxFails /\ pc = "loop") ~> (pc = "receive")
    /\ (pc = "wait" /\ AllDone /\ \A i \in DOMAIN units : units[i].ret # NilErr)
           ~> (pc = "receive")

\* a receive request issued after MaxFails consecutive failures
C10_Witness ==
    /\ pc = "receive"
    /\ consecFails = MaxFails

\* run has returned from a non-empty batch
RunReturned ==
    /\ pc \in {"loop", "returned"}
    /\ messages # <<>>
    /\ AllDone
\* every delete call and every error entry of the batch, as (unit, position)
AllDeletes ==
    UNION { {<<i, k>> : k \in DOMAIN units[i].del} : i \in DOMAIN units }
AllErrorEntries ==
    UNION { {<<i, k>> : k \in ErrorEntries(units[i].log)} : i \in DOMAIN units }
Eligible(i) == units[i].herr.type \in {"nil", "InvalidEventError"}

\* C11: when run has returned from a batch in which no delete failed, the
\* number of delete calls equals the number of messages whose Handler
\* returned nil or an invalid event, with one call per such message; each
\* message with an invalid event has exactly one error entry and each message
\* with a nil result has none; a batch with only nil results has as many
\* deletes as messages and no error entry, neither of a unit nor of run.
C11_BatchTotals ==
    (RunReturned /\ \A i \in DOMAIN units : ~ DeleteFailed(i)) =>
        /\ Cardinality(AllDeletes)
              = Cardinality({i \in DOMAIN units : Eligible(i)})
        /\ \A i \in DOMAIN units :
              /\ Eligible(i) => Len(units[i].del) = 1
              /\ units[i].herr.type = "InvalidEventError" =>
                    Cardinality(ErrorEntries(units[i].log)) = 1
              /\ units[i].herr = NilErr => ErrorEntries(units[i].log) = {}
        /\ (\A i \in DOMAIN units : units[i].herr = NilErr) =>
              /\ Cardinality(AllDeletes) = Len(messages)
              /\ AllErrorEntries = {}
              /\ ErrorEntries(plog) = {}

\* the two scenarios in one batch of three: an invalid event, and two nil
\* results, all deleted
C11_Witness ==
    /\ RunReturned
    /\ Len(messages) = 3
    /\ Cardinality(AllDeletes) = 3
    /\ Cardinality(AllErrorEntries) = 1
    /\ \A i \in DOMAIN units : ~ DeleteFailed(i)
    /\ \E i \in DOMAIN units : units[i].herr.type = "InvalidEventError"

\* Start has been through the top of the loop at least once
Polled == plog # <<>>

\* C13 as stated: once Start, called with a nil config, has substituted the
\* default, the configuration reference the caller holds is the process-wide
\* default.
C13_Original ==
    (Polled /\ config = "default") => callerConfig = "default"

\* C13 amended: called with a nil config, Start rebinds its own parameter to
\* the address of the process-wide DefaultConfig in the first iteration and
\* every later iteration uses it (the receive request carries the default's
\* queue identity, batch size and wait time); the reference the caller holds
\* is not changed by any step and stays nil. Called with a config, Start
\* keeps that config.
C13_NilConfigRebindsParameter ==
    /\ (Polled /\ callerConfig = "nil") =>
          /\ config = "default"
          /\ params.QueueUrl = ""
          /\ params.MaxNumberOfMessages = 10
          /\ params.WaitTimeSeconds = 20
    /\ (Polled /\ callerConfig = "caller") => config = "caller"
    /\ callerConfig \in {"nil", "caller"}

\* a later iteration of a Start called with nil: a receive has failed and the
\* next request is out, still on the default
C13_Witness ==
    /\ callerConfig = "nil"
    /\ config = "default"
    /\ pc = "receive"
    /\ consecFails > 0

\* C14: every step of Start, run and the goroutines leaves a non-nil
\* configuration reference behind it: the reference is nil only before the
\* first iteration, and whenever a receive request, a log call of run or of a
\* goroutine, or a delete request reads it, it is the caller's config or the
\* default.
C14_ConfigNeverNilAtUse ==
    /\ (pc # "loop" \/ Polled) => config \in {"caller", "default"}
    /\ \A i \in DOMAIN units : config \in {"caller", "default"}
    /\ config = "nil" => (pc = "loop" /\ units = <<>> /\ plog = <<>>)

\* a delete request being built from the substituted default
C14_Witness ==
    /\ callerConfig = "nil"
    /\ config = "default"
    /\ \E i \in DOMAIN units :
          /\ units[i].pc = "deleting"
          /\ units[i].del[1].QueueUrl = ""

Running(i) == units[i].pc \in {"launched", "handling", "deleting"}
NumRunning == Cardinality({i \in DOMAIN units : Running(i)})

\* C15: every running unit holds the message at its own position of the
\* batch received last; the number of running units is at most the size of
\* that batch, which is at most the maximum the receive request asked for,
\* and that is between 1 and 10; units run only while the Poller is inside
\* run for that batch.
C15_UnitsOfLastBatchOnly ==
    /\ \A i \in DOMAIN units :
          Running(i) => (i \in DOMAIN messages /\ units[i].m = messages[i])
    /\ NumRunning <= Len(messages)
    /\ Len(messages) <= params.MaxNumberOfMessages
    /\ (NumRunning > 0) => params.MaxNumberOfMessages \in 1..10
    /\ NumRunning <= 10
    /\ (NumRunning > 0) => (entry = "Start" /\ pc \in {"spawn", "wait"})

\* a whole batch of the largest size in flight at once
C15_Witness ==
    /\ Len(messages) = MaxBatch
    /\ NumRunning = MaxBatch
    /\ pc = "wait"

\* the receive of this iteration has returned an empty response
AfterEmptyReceive ==
    /\ entry = "Start"
    /\ pc = "loop"
    /\ Polled
    /\ consecFails = 0
    /\ messages = <<>>

\* C16: run is entered only with a non-empty batch; after a receive that
\* succeeded with zero messages the Poller is at the top of the loop with no
\* unit (no Handler call, no delete call), the only log entry of the
\* iteration is the debug 'Start Polling' entry (no info entry), and the next
\* receive can be issued.
C16_EmptyReceiveSkipsRun ==
    /\ (entry = "Start" /\ pc \in {"run", "spawn", "wait"}) => messages # <<>>
    /\ \A k \in DOMAIN plog :
          plog[k].sev = "Info" =>
              plog[k].text # <<"worker: Received ", "0", " messages">>
    /\ AfterEmptyReceive =>
          /\ units = <<>>
          /\ plog = << [by |-> "Start", logger |-> "config", sev |-> "Debug",
                        text |-> <<"worker: Start Polling">>] >>
          /\ ENABLED StartPoll

\* an empty response received, on the caller's queue
C16_Witness ==
    /\ AfterEmptyReceive
    /\ callerConfig = "caller"

\* C17: only the top of the loop assigns the configuration reference, so it
\* is the same from the receive request to the end of the batch; every delete
\* request of the batch carries the queue identity of the receive request
\* that returned its message.
C17_SameQueueWithinCycle ==
    /\ \A i \in DOMAIN units :
          \A k \in DOMAIN units[i].del :
              units[i].del[k].QueueUrl = params.QueueUrl
    /\ Polled => params.QueueUrl = Deref(config).QueueURL

\* deletes of two units of a batch issued on the default's queue
C17_Witness ==
    /\ callerConfig = "nil"
    /\ \E i, j \in DOMAIN units :
          /\ i # j
          /\ units[i].del # <<>>
          /\ units[j].del # <<>>
          /\ units[i].del[1].QueueUrl = params.QueueUrl

\* C18: a unit that has not called the Handler has no Handler call; a unit
\* that has called it has exactly one, with the message at its own position
\* of the batch; messages of a batch are distinct, so no message is handled
\* by two units; a delete exists only after the Handler of that message has
\* returned, and is for that message; when run has returned every message of
\* the batch has had its one call.
C18_OneHandlerCallPerMessage ==
    /\ \A i \in DOMAIN units :
          /\ units[i].pc \in {"idle", "launched"} => units[i].hcalls = <<>>
          /\ units[i].pc \in {"handling", "deleting", "done"} =>
                units[i].hcalls = << messages[i] >>
          /\ units[i].del # <<>> =>
                /\ units[i].herr # Pending
                /\ units[i].pc \in {"deleting", "done"}
                /\ units[i].del[1].ReceiptHandle = messages[i].ReceiptHandle
    /\ \A i, j \in DOMAIN units :
          (i # j /\ units[i].hcalls # <<>> /\ units[j].hcalls # <<>>) =>
              units[i].hcalls[1] # units[j].hcalls[1]
    /\ RunReturned =>
          \A i \in DOMAIN messages : Len(units[i].hcalls) = 1

\* run has returned from a batch delivered in descending handle order, each
\* message handled once
C18_Witness ==
    /\ RunReturned
    /\ Len(messages) = MaxBatch
    /\ messages[1].ReceiptHandle # "1"
    /\ \A i \in DOMAIN units : units[i].hcalls = << messages[i] >>

\* C19: for a finished message the number of error entries is 0 for nil and
\* a successful delete, 1 for nil and a failed delete, 1 for an error that is
\* not an invalid event, 1 for an invalid event and a successful delete, 2
\* for an invalid event and a failed delete, the first by the Message
\* Processor and the second by the Dispatcher.
C19_ErrorEntryCounts ==
    \A i \in DOMAIN units :
        Done(i) =>
            LET n == Cardinality(ErrorEntries(units[i].log))
                h == units[i].herr.type
            IN /\ (h = "nil" /\ ~ DeleteFailed(i)) => n = 0
               /\ (h = "nil" /\ DeleteFailed(i)) => n = 1
               /\ (h \in {"errorString", "*InvalidEventError"}) => n = 1
               /\ (h = "InvalidEventError" /\ ~ DeleteFailed(i)) => n = 1
               /\ (h = "InvalidEventError" /\ DeleteFailed(i)) =>
                     /\ n = 2
                     /\ units[i].log[1].by = "handleMessage"
                     /\ units[i].log[1].sev = "Error"
                     /\ units[i].log[2].by = "run"
                     /\ units[i].log[2].sev = "Error"

\* an invalid event whose delete failed, next to a fully handled message
C19_Witness ==
    \E i, j \in DOMAIN units :
        /\ Done(i) /\ Done(j)
        /\ units[i].herr.type = "InvalidEventError" /\ DeleteFailed(i)
        /\ Cardinality(ErrorEntries(units[i].log)) = 2
        /\ units[j].herr = NilErr /\ units[j].ret = NilErr

\* C12: with a deterministic Handler, every recorded delivery of the
\* redelivered message is classified as the first one was: the same Handler
\* error, the same decision to issue a delete, the same early return; and the
\* decision is the one the Handler's answer calls for (a delete for nil and
\* for an invalid event, none otherwise).
C12_SameClassificationOnRedelivery ==
    \A k \in DOMAIN hist :
        /\ hist[k] = hist[1]
        /\ hist[k].herr = handler
        /\ hist[k].deletes =
              IF handler.type \in {"nil", "InvalidEventError"} THEN 1 ELSE 0

\* the message has been delivered again after a first delivery that went on
\* to the delete, and has been classified again
C12_Witness ==
    /\ Len(hist) = MaxDeliveries
    /\ hist[1].deletes = 1
    /\ hist[MaxDeliveries].deletes = 1
    /\ handler.type = "InvalidEventError"

TypeOK ==
    /\ callerConfig \in {"nil", "caller"}
    /\ config \in {"nil", "caller", "default"}
    /\ pc \in {"loop", "receive", "run", "spawn", "wait", "returned"}
    /\ wg \in 0..MaxBatch
    /\ next \in 0..MaxBatch
    /\ consecFails \in 0..MaxFails
====
